---------------------------- MODULE Spec2Model ----------------------------
(***************************************************************************)
(* A model of the embedded key/value store: the segment record codec, the *)
(* buffered segment writer (Storage), the segment reader                  *)
(* (StorageIterator), the ordered in-memory index (MemTable) and the      *)
(* engine (Db) that ties them to one directory.                           *)
(*                                                                         *)
(* Files are sequences of bytes (0..255), records are encoded and decoded *)
(* byte by byte with the widths of the source.  The directory is a        *)
(* function from segment names (clock readings) to file contents; the     *)
(* enumeration order is the lexicographic order of the decimal names.     *)
(***************************************************************************)
EXTENDS Integers, Sequences, FiniteSets, TLC

(***************************************************************************)
(* Bounds of the model.                                                    *)
(***************************************************************************)
\* The clock reading before the first call (two decimal digits, as every
\* reading of the window, like the 16 digits of a present-day reading).
ClockEpoch == 10
\* The clock is read at most MaxTicks times in one behaviour.
MaxTicks == 5
\* At most MaxFaults injected faults (I/O failures, process stops) in one
\* behaviour of SpecFaults or SpecStops.
MaxFaults == 1
\* The clock is read at most MaxFaultTicks times in a behaviour of
\* SpecFaults or SpecStops.
MaxFaultTicks == 4
\* The clock is read at most MaxSnapshotTicks times, the last of them by
\* the opening of an engine, and at most MaxImports snapshots are imported,
\* in a behaviour of SpecSnapshot.
MaxSnapshotTicks == 4
MaxImports == 1
\* The clock is read at most MaxClockTicks times in a behaviour of SpecClock.
MaxClockTicks == 5
\* At most MaxMemCalls calls are made on the memtable of SpecMemTable.
MaxMemCalls == 4
\* At most MaxRecords records are handed to the Storage of SpecCodec.
MaxRecords == 2

(***************************************************************************)
(* Program constants.                                                      *)
(***************************************************************************)
\* Width of usize on the build target: the reader decodes both size
\* fields with usize::from_le_bytes of an 8 byte slice.
UsizeBytes == 8
\* key_size (8) + deleted (1) + value_size (8): the fixed record header.
HeaderBytes == 17
\* A u128 timestamp.
TimestampBytes == 16

\* The keys and values the calls are made with.
Keys == {<<97>>, <<97, 98>>}
Values == {<<>>, <<120>>}

\* Option<T>: None is <<>>, Some(x) is <<x>>.
None == <<>>
Some(x) == <<x>>
IsSome(o) == o # <<>>
Unwrap(o) == o[1]

\* A size no file of the model reaches; a decoded size field with a
\* non-zero byte above the second one is at least this large.
Huge == 65536

(***************************************************************************)
(* Integers <-> little-endian bytes (to_le_bytes / from_le_bytes).         *)
(***************************************************************************)
RECURSIVE to_le_bytes(_, _)
to_le_bytes(n, width) ==
    IF width = 0 THEN <<>>
    ELSE <<n % 256>> \o to_le_bytes(n \div 256, width - 1)

RECURSIVE from_le_bytes(_)
from_le_bytes(bytes) ==
    IF bytes = <<>> THEN 0
    ELSE LET rest == from_le_bytes(Tail(bytes))
         IN  IF rest >= 256 THEN Huge ELSE bytes[1] + 256 * rest

(***************************************************************************)
(* Lexicographic order of byte sequences (Ord for [u8] and for paths).     *)
(***************************************************************************)
RECURSIVE LexLess(_, _)
LexLess(a, b) ==
    IF b = <<>> THEN FALSE
    ELSE IF a = <<>> THEN TRUE
    ELSE IF a[1] # b[1] THEN a[1] < b[1]
    ELSE LexLess(Tail(a), Tail(b))

(***************************************************************************)
(* Entry (entry.rs) and the memtable (memtable.rs).                        *)
(***************************************************************************)
Entry(key, value, timestamp, deleted) ==
    [key |-> key, value |-> value, timestamp |-> timestamp, deleted |-> deleted]

\* MemTable::new
MemTable_new == [entities |-> <<>>, size |-> 0]

InsertAt(seq, idx, e) ==
    SubSeq(seq, 1, idx - 1) \o <<e>> \o SubSeq(seq, idx, Len(seq))

\* <[T]>::binary_search_by_key: the loop of the standard library on the
\* half-open range [left, right) of 0-based indices.
RECURSIVE binary_search(_, _, _, _)
binary_search(entities, key, left, right) ==
    IF left >= right THEN [found |-> FALSE, idx |-> left]
    ELSE LET mid == left + (right - left) \div 2
             probe == entities[mid + 1].key
         IN  IF LexLess(probe, key) THEN binary_search(entities, key, mid + 1, right)
             ELSE IF LexLess(key, probe) THEN binary_search(entities, key, left, mid)
             ELSE [found |-> TRUE, idx |-> mid]

\* get_index with the insertion point of a missing key taken as 0
\* (unwrap_or(0) in place of the Err index).
get_index_front(mt, key) ==
    LET r == binary_search(mt.entities, key, 0, Len(mt.entities))
    IN  IF r.found THEN r ELSE [found |-> FALSE, idx |-> 0]

\* MemTable::get_index: Ok(idx) is found, Err(idx) the insertion point.
get_index(mt, key) == binary_search(mt.entities, key, 0, Len(mt.entities))

\* set_or_insert that leaves the entry of a key it finds as it is.
set_or_insert_keeps_old(mt, key, value, timestamp) ==
    LET entry == Entry(key, Some(value), timestamp, FALSE)
        r == get_index(mt, key)
    IN  IF r.found THEN mt
        ELSE [entities |-> InsertAt(mt.entities, r.idx + 1, entry),
              size |-> mt.size + Len(key) + Len(value) + 16 + 1]

\* set_or_insert that puts the entry of a new key behind the others
\* (push in place of insert(idx, ..)).
set_or_insert_pushes(mt, key, value, timestamp) ==
    LET entry == Entry(key, Some(value), timestamp, FALSE)
        r == get_index(mt, key)
    IN  IF r.found
        THEN LET old == mt.entities[r.idx + 1].value
             IN  [entities |-> [mt.entities EXCEPT ![r.idx + 1] = entry],
                  size |-> IF IsSome(old)
                           THEN (mt.size + Len(value)) - Len(Unwrap(old))
                           ELSE mt.size + Len(value)]
        ELSE [entities |-> Append(mt.entities, entry),
              size |-> mt.size + Len(key) + Len(value) + 16 + 1]

\* set_or_insert that keeps the entry of the key when its timestamp is
\* larger than the new one (arbitration by timestamp).
set_or_insert_newer_wins(mt, key, value, timestamp) ==
    LET entry == Entry(key, Some(value), timestamp, FALSE)
        r == get_index(mt, key)
    IN  IF r.found
        THEN LET old == mt.entities[r.idx + 1]
             IN  IF old.timestamp > timestamp THEN mt
                 ELSE [entities |-> [mt.entities EXCEPT ![r.idx + 1] = entry],
                       size |-> IF IsSome(old.value)
                                THEN (mt.size + Len(value)) - Len(Unwrap(old.value))
                                ELSE mt.size + Len(value)]
        ELSE [entities |-> InsertAt(mt.entities, r.idx + 1, entry),
              size |-> mt.size + Len(key) + Len(value) + 16 + 1]

\* MemTable::set_or_insert
set_or_insert(mt, key, value, timestamp) ==
    LET entry == Entry(key, Some(value), timestamp, FALSE)
        r == get_index(mt, key)
    IN  IF r.found
        THEN LET old == mt.entities[r.idx + 1].value
             IN  [entities |-> [mt.entities EXCEPT ![r.idx + 1] = entry],
                  size |-> IF IsSome(old)
                           THEN (mt.size + Len(value)) - Len(Unwrap(old))
                           ELSE mt.size + Len(value)]
        ELSE [entities |-> InsertAt(mt.entities, r.idx + 1, entry),
              size |-> mt.size + Len(key) + Len(value) + 16 + 1]

\* MemTable::delete that does nothing for a key the memtable does not hold.
MemTable_delete_ignores_absent(mt, key, timestamp) ==
    LET entry == Entry(key, None, timestamp, TRUE)
        r == get_index(mt, key)
    IN  IF r.found
        THEN LET old == mt.entities[r.idx + 1].value
             IN  [entities |-> [mt.entities EXCEPT ![r.idx + 1] = entry],
                  size |-> IF IsSome(old) THEN mt.size - Len(Unwrap(old))
                           ELSE mt.size]
        ELSE mt

\* MemTable::delete that leaves the size counter as it is when it replaces
\* a live entry.
MemTable_delete_keeps_size(mt, key, timestamp) ==
    LET entry == Entry(key, None, timestamp, TRUE)
        r == get_index(mt, key)
    IN  IF r.found
        THEN [entities |-> [mt.entities EXCEPT ![r.idx + 1] = entry],
              size |-> mt.size]
        ELSE [entities |-> InsertAt(mt.entities, r.idx + 1, entry),
              size |-> mt.size + Len(key) + 16 + 1]

\* MemTable::delete
MemTable_delete(mt, key, timestamp) ==
    LET entry == Entry(key, None, timestamp, TRUE)
        r == get_index(mt, key)
    IN  IF r.found
        THEN LET old == mt.entities[r.idx + 1].value
             IN  [entities |-> [mt.entities EXCEPT ![r.idx + 1] = entry],
                  size |-> IF IsSome(old) THEN mt.size - Len(Unwrap(old))
                           ELSE mt.size]
        ELSE [entities |-> InsertAt(mt.entities, r.idx + 1, entry),
              size |-> mt.size + Len(key) + 16 + 1]

\* MemTable::get that answers None for a tombstone.
MemTable_get_hides_tombstones(mt, key) ==
    LET r == get_index(mt, key)
    IN  IF r.found /\ ~mt.entities[r.idx + 1].deleted
        THEN Some(mt.entities[r.idx + 1]) ELSE None

\* MemTable::get: Option<&Entry>
MemTable_get(mt, key) ==
    LET r == get_index(mt, key)
    IN  IF r.found THEN Some(mt.entities[r.idx + 1]) ELSE None

\* MemTable::restore_size: the size counter after the loop over the
\* entries, from the counter `size` before it.
RECURSIVE restore_size(_, _)
restore_size(entities, size) ==
    IF entities = <<>> THEN size
    ELSE LET entry == Head(entities)
         IN  restore_size(Tail(entities),
                          IF IsSome(entry.value)
                          THEN size + Len(entry.key) + Len(Unwrap(entry.value)) + 16 + 1
                          ELSE size + Len(entry.key) + 16 + 1)

\* MemTable::init_from_file
init_from_file(entities) ==
    [entities |-> entities, size |-> restore_size(entities, 0)]

\* MemTable::get_all
get_all(mt) == mt.entities

(***************************************************************************)
(* The buffered writer behind Storage (std::io::BufWriter<File>).          *)
(* A writer value is [ok, buf, out]: whether every call so far returned    *)
(* Ok, the bytes still buffered, and the bytes handed to the file.  A      *)
(* flush that fails has written the first `fail` bytes of the buffer and   *)
(* keeps the rest buffered; NoFail (a failure behind every byte) is a      *)
(* flush that writes all of it.                                            *)
(***************************************************************************)
\* The capacity of the buffer, scaled down from the default 8 KiB so that
\* a record that follows an unflushed one overflows it.
BufCapacity == 40

NoFail == Huge

Writer(buf) == [ok |-> TRUE, buf |-> buf, out |-> <<>>]

\* BufWriter::flush_buf
flush_buf(w, fail) ==
    IF fail >= Len(w.buf)
    THEN [ok |-> TRUE, buf |-> <<>>, out |-> w.out \o w.buf]
    ELSE [ok |-> FALSE,
          buf |-> SubSeq(w.buf, fail + 1, Len(w.buf)),
          out |-> w.out \o SubSeq(w.buf, 1, fail)]

\* BufWriter::write_all followed by `?`: a writer that already failed is
\* left as it is (the call is not reached).
write_all(w, data, fail) ==
    IF ~w.ok THEN w
    ELSE IF Len(w.buf) + Len(data) > BufCapacity
    THEN LET f == flush_buf(w, fail)
         IN  IF ~f.ok THEN f
             ELSE IF Len(data) >= BufCapacity
             THEN [f EXCEPT !.out = @ \o data]
             ELSE [f EXCEPT !.buf = data]
    ELSE [w EXCEPT !.buf = @ \o data]

(***************************************************************************)
(* Storage (storage.rs): the record layout                                 *)
(*   key size (8) | deleted (1) | value size (8) | key | value | ts (16)   *)
(***************************************************************************)
BoolByte(b) == IF b THEN 1 ELSE 0

\* Storage::set
Storage_set(w, key, value, deleted, timestamp, fail) ==
    LET w1 == write_all(w, to_le_bytes(Len(key), UsizeBytes), fail)
        w2 == write_all(w1, <<BoolByte(deleted)>>, fail)
        w3 == write_all(w2, to_le_bytes(Len(value), UsizeBytes), fail)
        w4 == write_all(w3, key, fail)
        w5 == write_all(w4, value, fail)
    IN  write_all(w5, to_le_bytes(timestamp, TimestampBytes), fail)

\* Storage::delete without the value size field (a tombstone has no value).
Storage_delete_no_value_size(w, key, timestamp, fail) ==
    LET w1 == write_all(w, to_le_bytes(Len(key), UsizeBytes), fail)
        w2 == write_all(w1, <<BoolByte(TRUE)>>, fail)
        w4 == write_all(w2, key, fail)
    IN  write_all(w4, to_le_bytes(timestamp, TimestampBytes), fail)

\* Storage::delete
Storage_delete(w, key, timestamp, fail) ==
    LET w1 == write_all(w, to_le_bytes(Len(key), UsizeBytes), fail)
        w2 == write_all(w1, <<BoolByte(TRUE)>>, fail)
        w3 == write_all(w2, to_le_bytes(0, UsizeBytes), fail)
        w4 == write_all(w3, key, fail)
    IN  write_all(w4, to_le_bytes(timestamp, TimestampBytes), fail)

\* Storage::commit followed by `?`
Storage_commit(w, fail) == IF ~w.ok THEN w ELSE flush_buf(w, fail)

(***************************************************************************)
(* StorageIterator (storage_iterator.rs).                                  *)
(***************************************************************************)
\* Read::read_exact at offset pos: the n bytes, or None at end-of-file.
read_exact(bytes, pos, n) ==
    IF Len(bytes) - pos < n THEN None
    ELSE Some(SubSeq(bytes, pos + 1, pos + n))

\* StorageIterator::next that takes a timestamp it cannot read whole as 0
\* and still yields the record.
StorageIterator_next_lenient(bytes, pos) ==
    LET buffer == read_exact(bytes, pos, HeaderBytes)
    IN  IF ~IsSome(buffer) THEN None
        ELSE
        LET key_size == from_le_bytes(SubSeq(Unwrap(buffer), 1, 8))
            deleted == Unwrap(buffer)[9] # 0
            value_size == from_le_bytes(SubSeq(Unwrap(buffer), 10, 17))
            p1 == pos + HeaderBytes
            key == read_exact(bytes, p1, key_size)
        IN  IF ~IsSome(key) THEN None
            ELSE
            LET p2 == p1 + key_size
                value_buffer == IF deleted THEN Some(<<>>)
                                ELSE read_exact(bytes, p2, value_size)
            IN  IF ~IsSome(value_buffer) THEN None
                ELSE
                LET p3 == IF deleted THEN p2 ELSE p2 + value_size
                    value == IF deleted THEN None ELSE value_buffer
                    timestamp_buffer == read_exact(bytes, p3, TimestampBytes)
                IN  IF ~IsSome(timestamp_buffer)
                    THEN Some([entry |-> Entry(Unwrap(key), value, 0, deleted),
                               pos |-> Len(bytes)])
                    ELSE Some([entry |-> Entry(Unwrap(key), value,
                                     from_le_bytes(Unwrap(timestamp_buffer)),
                                     deleted),
                               pos |-> p3 + TimestampBytes])

\* StorageIterator::next at offset pos: None, or Some of the entry and the
\* offset behind it.
StorageIterator_next(bytes, pos) ==
    LET buffer == read_exact(bytes, pos, HeaderBytes)
    IN  IF ~IsSome(buffer) THEN None
        ELSE
        LET key_size == from_le_bytes(SubSeq(Unwrap(buffer), 1, 8))
            deleted == Unwrap(buffer)[9] # 0
            value_size == from_le_bytes(SubSeq(Unwrap(buffer), 10, 17))
            p1 == pos + HeaderBytes
            key == read_exact(bytes, p1, key_size)
        IN  IF ~IsSome(key) THEN None
            ELSE
            LET p2 == p1 + key_size
                value_buffer == IF deleted THEN Some(<<>>)
                                ELSE read_exact(bytes, p2, value_size)
            IN  IF ~IsSome(value_buffer) THEN None
                ELSE
                LET p3 == IF deleted THEN p2 ELSE p2 + value_size
                    value == IF deleted THEN None ELSE value_buffer
                    timestamp_buffer == read_exact(bytes, p3, TimestampBytes)
                IN  IF ~IsSome(timestamp_buffer) THEN None
                    ELSE Some([entry |-> Entry(Unwrap(key), value,
                                     from_le_bytes(Unwrap(timestamp_buffer)),
                                     deleted),
                               pos |-> p3 + TimestampBytes])

\* Iterator::collect: the entries up to the first None.
RECURSIVE collect_from(_, _)
collect_from(bytes, pos) ==
    LET n == StorageIterator_next(bytes, pos)
    IN  IF ~IsSome(n) THEN <<>>
        ELSE <<Unwrap(n).entry>> \o collect_from(bytes, Unwrap(n).pos)

collect(bytes) == collect_from(bytes, 0)

\* Read::read_exact at offset pos of a file whose device fails at the
\* offset bad (NoFail: it does not fail): Ok of the n bytes, the error
\* UnexpectedEof, or the error of the device for a read that reaches bad.
read_exact_io(bytes, pos, n, bad) ==
    IF bad < Len(bytes) /\ pos + n > bad THEN [kind |-> "io", data |-> <<>>]
    ELSE IF Len(bytes) - pos < n THEN [kind |-> "eof", data |-> <<>>]
    ELSE [kind |-> "ok", data |-> SubSeq(bytes, pos + 1, pos + n)]

\* Result::is_err
is_err(r) == r.kind # "ok"

\* StorageIterator::next on such a file.  What it returns is `some` (and
\* entry, pos); err keeps the kind of the error it met and did not pass on.
StorageIterator_next_io(bytes, pos, bad) ==
    LET none(r) == [some |-> FALSE, err |-> r.kind]
        buffer == read_exact_io(bytes, pos, HeaderBytes, bad)
    IN  IF is_err(buffer) THEN none(buffer)
        ELSE
        LET key_size == from_le_bytes(SubSeq(buffer.data, 1, 8))
            deleted == buffer.data[9] # 0
            value_size == from_le_bytes(SubSeq(buffer.data, 10, 17))
            p1 == pos + HeaderBytes
            key == read_exact_io(bytes, p1, key_size, bad)
        IN  IF is_err(key) THEN none(key)
            ELSE
            LET p2 == p1 + key_size
                value_buffer == IF deleted THEN [kind |-> "ok", data |-> <<>>]
                                ELSE read_exact_io(bytes, p2, value_size, bad)
            IN  IF is_err(value_buffer) THEN none(value_buffer)
                ELSE
                LET p3 == IF deleted THEN p2 ELSE p2 + value_size
                    value == IF deleted THEN None ELSE Some(value_buffer.data)
                    timestamp_buffer == read_exact_io(bytes, p3, TimestampBytes, bad)
                IN  IF is_err(timestamp_buffer) THEN none(timestamp_buffer)
                    ELSE [some |-> TRUE, err |-> "none",
                          entry |-> Entry(key.data, value,
                                          from_le_bytes(timestamp_buffer.data),
                                          deleted),
                          pos |-> p3 + TimestampBytes]

\* Iterator::collect on such a file: the entries up to the first None, and
\* how the call ended.  The iterator has no other way to end than None, so
\* collect returns the entries ("end"); it neither panics nor returns an
\* error.
RECURSIVE collect_io(_, _, _)
collect_io(bytes, pos, bad) ==
    LET n == StorageIterator_next_io(bytes, pos, bad)
    IN  IF ~n.some THEN [entries |-> <<>>, err |-> n.err, outcome |-> "end"]
        ELSE LET rest == collect_io(bytes, n.pos, bad)
             IN  [rest EXCEPT !.entries = <<n.entry>> \o @]

(***************************************************************************)
(* The directory (utils.rs) and the segment names (Storage::new).          *)
(***************************************************************************)
\* format!("{}", timestamp): the decimal digits, as ASCII bytes.
RECURSIVE to_string(_)
to_string(n) ==
    IF n < 10 THEN <<48 + n>>
    ELSE to_string(n \div 10) \o <<48 + (n % 10)>>

\* Vec::sort of the paths of one directory: by the bytes of the file name.
RECURSIVE sorted(_)
sorted(names) ==
    IF names = {} THEN <<>>
    ELSE LET first == CHOOSE a \in names :
                        \A b \in names \ {a} : LexLess(to_string(a), to_string(b))
         IN  <<first>> \o sorted(names \ {first})

\* utils::scan_dir (the Ok case): the files of the directory, sorted.
scan_dir(d) == sorted(DOMAIN d)

\* OpenOptions::new().create(true).append(true).open(path): an existing
\* file is kept as it is, a missing one is created empty.
open_append(d, name) ==
    [n \in DOMAIN d \cup {name} |-> IF n \in DOMAIN d THEN d[n] ELSE <<>>]

\* utils::remove_file
remove_file(d, name) == [n \in DOMAIN d \ {name} |-> d[n]]

RECURSIVE remove_files(_, _)
remove_files(d, files) ==
    IF files = <<>> THEN d
    ELSE remove_files(remove_file(d, Head(files)), Tail(files))

\* write(2) on the writer's file: the bytes are appended to the file the
\* descriptor was opened on; once that file is unlinked no path shows them.
file_write(d, st, bytes) ==
    IF st.unlinked THEN d
    ELSE [d EXCEPT ![st.file_path] = @ \o bytes]

(***************************************************************************)
(* Steps of Db::init_from_existing (db.rs).                                *)
(***************************************************************************)
\* Lines 46-52 with an entry whose value is empty taken for a deleted one.
fold_entry_empty_is_deleted(mt, entry) ==
    IF ~entry.deleted /\ Unwrap(entry.value) # <<>>
    THEN set_or_insert(mt, entry.key, Unwrap(entry.value), entry.timestamp)
    ELSE MemTable_delete(mt, entry.key, entry.timestamp)

\* Lines 46-52: one entry folded into the memtable.
fold_entry(mt, entry) ==
    IF ~entry.deleted
    THEN set_or_insert(mt, entry.key, Unwrap(entry.value), entry.timestamp)
    ELSE MemTable_delete(mt, entry.key, entry.timestamp)

RECURSIVE fold_entries(_, _)
fold_entries(mt, data) ==
    IF data = <<>> THEN mt
    ELSE fold_entries(fold_entry(mt, Head(data)), Tail(data))

\* Lines 44-53: every file, in the order of the enumeration.
RECURSIVE fold_files(_, _, _)
fold_files(mt, d, files) ==
    IF files = <<>> THEN mt
    ELSE fold_files(fold_entries(mt, collect(d[Head(files)])), d, Tail(files))

\* The dump with the tombstones left out.
RECURSIVE dump_entries_live_only(_, _)
dump_entries_live_only(w, entries) ==
    IF entries = <<>> THEN w
    ELSE LET entry == Head(entries)
             w1 == IF ~entry.deleted
                   THEN Storage_set(w, entry.key, Unwrap(entry.value), FALSE,
                                    entry.timestamp, NoFail)
                   ELSE w
         IN  dump_entries_live_only(w1, Tail(entries))

\* The dump with every entry written as a live record (a tombstone with an
\* empty value).
RECURSIVE dump_entries_all_live(_, _)
dump_entries_all_live(w, entries) ==
    IF entries = <<>> THEN w
    ELSE LET entry == Head(entries)
             value == IF IsSome(entry.value) THEN Unwrap(entry.value) ELSE <<>>
             w1 == Storage_set(w, entry.key, value, FALSE, entry.timestamp, NoFail)
         IN  dump_entries_all_live(w1, Tail(entries))

\* Lines 59-70: every entry of the memtable written to the new segment.
RECURSIVE dump_entries(_, _)
dump_entries(w, entries) ==
    IF entries = <<>> THEN w
    ELSE LET entry == Head(entries)
             w1 == IF ~entry.deleted
                   THEN Storage_set(w, entry.key, Unwrap(entry.value), FALSE,
                                    entry.timestamp, NoFail)
                   ELSE Storage_delete(w, entry.key, entry.timestamp, NoFail)
         IN  dump_entries(w1, Tail(entries))

\* No stop: the call runs to its end.
NoStop == [at |-> "none", n |-> 0]

\* The call without the removal of the enumerated files (as Engine in
\* engine.rs has it).
recover_dir_keeps_prior(d, files, t, out, stop) ==
    LET st == [file_path |-> t, unlinked |-> FALSE]
        d1 == open_append(d, t)
    IN  IF stop.at = "write" THEN file_write(d1, st, SubSeq(out, 1, stop.n))
        ELSE file_write(d1, st, out)

\* The call with the enumerated files removed before the dump is written.
recover_dir_removes_first(d, files, t, out, stop) ==
    LET st == [file_path |-> t, unlinked |-> FALSE]
        d1 == open_append(d, t)
    IN  IF stop.at = "remove" THEN remove_files(d1, SubSeq(files, 1, stop.n))
        ELSE IF stop.at = "write"
        THEN file_write(remove_files(d1, files), st, SubSeq(out, 1, stop.n))
        ELSE file_write(remove_files(d1, files), st, out)

\* The call with the first of the enumerated files removed before the
\* dump is written.
recover_dir_removes_one_early(d, files, t, out, stop) ==
    LET st == [file_path |-> t, unlinked |-> FALSE]
        d1 == remove_files(open_append(d, t),
                          IF files = <<>> THEN <<>> ELSE <<files[1]>>)
    IN  IF stop.at = "write" THEN file_write(d1, st, SubSeq(out, 1, stop.n))
        ELSE IF stop.at = "remove"
        THEN remove_files(file_write(d1, st, out), SubSeq(files, 1, stop.n))
        ELSE remove_files(file_write(d1, st, out), files)

\* Lines 57-78: what the call does to the directory.  The new segment is
\* opened, the dump `out` is written to it and committed, and only then
\* are the enumerated files removed.  With stop.at = "write" the call ends
\* (an error, or the process stops) when stop.n bytes of the new segment
\* reached the file; with stop.at = "remove" when stop.n files were
\* removed.
recover_dir(d, files, t, out, stop) ==
    LET st == [file_path |-> t, unlinked |-> FALSE]
        d1 == open_append(d, t)
    IN  IF stop.at = "write" THEN file_write(d1, st, SubSeq(out, 1, stop.n))
        ELSE IF stop.at = "remove"
        THEN remove_files(file_write(d1, st, out), SubSeq(files, 1, stop.n))
        ELSE remove_files(file_write(d1, st, out), files)

\* Line 43 with the NotFound error of scan_dir passed on to the caller (as
\* Db::new does with the error of Storage::new).
scan_or_create_passes_not_found(exists, d, err) ==
    IF err \/ ~exists THEN [ok |-> FALSE, files |-> <<>>, exists |-> exists]
    ELSE [ok |-> TRUE, files |-> scan_dir(d), exists |-> TRUE]

\* Line 43: the enumeration of the directory.  A directory that does not
\* exist (scan_dir returns NotFound) is created and its enumeration is
\* empty; err is an error of scan_dir of another kind, which is returned.
scan_or_create(exists, d, err) ==
    IF err THEN [ok |-> FALSE, files |-> <<>>, exists |-> exists]
    ELSE IF ~exists THEN [ok |-> TRUE, files |-> <<>>, exists |-> TRUE]
    ELSE [ok |-> TRUE, files |-> scan_dir(d), exists |-> TRUE]

\* Storage::purge_storage that opens the file again without removing it.
purge_storage_keeps_file(d, st) == open_append(d, st.file_path)

\* Storage::purge_storage that removes every file of the directory.
purge_storage_all(d, st) == open_append(<<>>, st.file_path)

\* Storage::purge_storage that removes the file and keeps the old writer.
purge_storage_no_reopen(d, st) == remove_file(d, st.file_path)

\* Storage::purge_storage (the Ok case): the file of the writer is removed
\* and a file of the same path is created, empty, for a new writer.
purge_storage(d, st) == open_append(remove_file(d, st.file_path), st.file_path)

\* MemTable::purge_mem_table: the memtable is cleared.
purge_mem_table(mt) == MemTable_new

\* Db::get_snapshot with the timestamp written as 8 bytes (as u64).
RECURSIVE get_snapshot_short_timestamp(_)
get_snapshot_short_timestamp(entries) ==
    IF entries = <<>> THEN <<>>
    ELSE LET data == Head(entries)
         IN  (IF ~data.deleted
              THEN to_le_bytes(Len(data.key), UsizeBytes)
                       \o <<BoolByte(data.deleted)>>
                       \o to_le_bytes(Len(Unwrap(data.value)), UsizeBytes)
                       \o data.key \o Unwrap(data.value)
                       \o to_le_bytes(data.timestamp, 8)
              ELSE <<>>)
                 \o get_snapshot_short_timestamp(Tail(entries))

\* Db::get_snapshot without the test of the deleted flag: a tombstone is
\* written with its flag and an empty value.
RECURSIVE get_snapshot_with_tombstones(_)
get_snapshot_with_tombstones(entries) ==
    IF entries = <<>> THEN <<>>
    ELSE LET data == Head(entries)
             value == IF IsSome(data.value) THEN Unwrap(data.value) ELSE <<>>
         IN  to_le_bytes(Len(data.key), UsizeBytes)
                 \o <<BoolByte(data.deleted)>>
                 \o to_le_bytes(Len(value), UsizeBytes)
                 \o data.key \o value
                 \o to_le_bytes(data.timestamp, TimestampBytes)
                 \o get_snapshot_with_tombstones(Tail(entries))

\* Db::get_snapshot: the blob for the entries of the memtable.
RECURSIVE get_snapshot(_)
get_snapshot(entries) ==
    IF entries = <<>> THEN <<>>
    ELSE LET data == Head(entries)
         IN  (IF ~data.deleted
              THEN to_le_bytes(Len(data.key), UsizeBytes)
                       \o <<BoolByte(data.deleted)>>
                       \o to_le_bytes(Len(Unwrap(data.value)), UsizeBytes)
                       \o data.key \o Unwrap(data.value)
                       \o to_le_bytes(data.timestamp, TimestampBytes)
              ELSE <<>>)
                 \o get_snapshot(Tail(entries))

\* Storage::write_all: the blob goes through the writer and is flushed.
Storage_write_all(w, buffer, fail) ==
    Storage_commit(write_all(w, buffer, fail), fail)

\* Db::set_snapshot, lines 150-153: entry.value.unwrap() panics at the
\* first entry without a value; the entries before it have been put.
RECURSIVE unwrapped(_)
unwrapped(data) ==
    IF data = <<>> \/ ~IsSome(Head(data).value) THEN <<>>
    ELSE <<Head(data)>> \o unwrapped(Tail(data))

RECURSIVE put_entries(_, _)
put_entries(mt, data) ==
    IF data = <<>> THEN mt
    ELSE put_entries(set_or_insert(mt, Head(data).key, Unwrap(Head(data).value),
                                   Head(data).timestamp),
                     Tail(data))

\* The records of the files, in the order of the enumeration.
RECURSIVE records_of(_, _)
records_of(d, files) ==
    IF files = <<>> THEN <<>>
    ELSE collect(d[Head(files)]) \o records_of(d, Tail(files))

\* The last record with the key in a sequence of records that has one.
last_record(records, key) ==
    LET idx == {i \in 1..Len(records) : records[i].key = key}
    IN  records[CHOOSE i \in idx : \A j \in idx : j <= i]

\* Db::new with the memtable folded from the files of the directory.
Db_new_mem_table_scans(d) == fold_files(MemTable_new, d, scan_dir(d))

\* Db::new, line 31: the memtable of the new engine, whatever the
\* directory d holds.
Db_new_mem_table(d) == MemTable_new

\* Db::set with the memtable updated before the result of the write is
\* looked at.
Db_set_mem_table_always(mt, ok, key, value, t) ==
    set_or_insert(mt, key, value, t)

\* Db::set, lines 93-96: the memtable after the call, ok being the result
\* of the append and of the commit.
Db_set_mem_table(mt, ok, key, value, t) ==
    IF ok THEN set_or_insert(mt, key, value, t) ELSE mt

\* Db::delete, lines 119-123.
Db_delete_mem_table(mt, ok, key, t) ==
    IF ok THEN MemTable_delete(mt, key, t) ELSE mt

(***************************************************************************)
(* State.                                                                  *)
(***************************************************************************)
VARIABLES
    dir_exists, \* whether the directory exists
    dir,        \* the directory: segment name -> bytes of the file
    open,       \* whether a Db value exists (the engine is open)
    mem_table,  \* Db.mem_table
    storage,    \* Db.storage: file_path, the writer's buffer, unlinked
    ticks,      \* how many times the clock has been read
    faults,     \* how many faults have been injected
    last,       \* the call that made the last step, and its result
    run,        \* about the open engine: how it was opened, what happened
    prior,      \* about the engine before: its memtable when it went away
    pend,       \* the memtable due after an interrupted recovery
    dead,       \* the keys whose last successful write, of those that
                \* were not purged, was a delete
    applied,    \* the keys a set or delete was applied to the memtable for
    snap,       \* the last snapshot taken, and how many were imported
    seg         \* about a Storage used on its own: the records handed to
                \* it, and what the last read of its file yielded

vars == <<dir_exists, dir, open, mem_table, storage, ticks, faults, last, run,
          prior, pend, dead, applied, snap, seg>>

NoStorage == [file_path |-> 0, buf |-> <<>>, unlinked |-> FALSE]
NoRun == [origin |-> "none", faulted |-> FALSE, idle |-> TRUE, purged |-> FALSE,
          made_dir |-> FALSE]
NoSnap == [taken |-> FALSE, blob |-> <<>>, mem |-> MemTable_new, imports |-> 0]
NoSeg == [log |-> <<>>, entries |-> <<>>, err |-> "none", outcome |-> "none"]
NoPend == [active |-> FALSE, mem |-> MemTable_new, at |-> "none"]
NoPrior == [exit |-> "none", mem |-> MemTable_new, run |-> NoRun, file |-> 0]

\* What is kept about the run of an engine that went away.
Kept(r) == [r EXCEPT !.made_dir = FALSE]

Call(op, ok, key, value, timestamp) ==
    [op |-> op, ok |-> ok, key |-> key, value |-> value, timestamp |-> timestamp]

\* SystemTime::now() as microseconds, for a clock that advances between
\* any two readings.
Now == ClockEpoch + ticks + 1

Init ==
    /\ dir_exists = FALSE
    /\ dir = <<>>
    /\ open = FALSE
    /\ mem_table = MemTable_new
    /\ storage = NoStorage
    /\ ticks = 0
    /\ faults = 0
    /\ last = Call("none", TRUE, <<>>, None, 0)
    /\ run = NoRun
    /\ prior = NoPrior
    /\ pend = NoPend
    /\ dead = {}
    /\ applied = {}
    /\ snap = NoSnap
    /\ seg = NoSeg

\* Db::get
Db_get(key) == MemTable_get(mem_table, key)

(***************************************************************************)
(* The calls.                                                              *)
(***************************************************************************)
\* utils::create_dir, as the callers of Db::new do first.
create_dir ==
    /\ ~dir_exists
    /\ dir_exists' = TRUE
    /\ last' = Call("create_dir", TRUE, <<>>, None, 0)
    /\ pend' = NoPend
    /\ UNCHANGED <<dir, open, mem_table, storage, ticks, faults, run, prior, dead,
                   applied, snap, seg>>

\* Db::new (open_empty) with the clock reading t.  Storage::new fails on
\* a missing directory and Db::new panics.
Db_new(t) ==
    /\ ~open
    /\ ticks' = ticks + 1
    /\ IF dir_exists
       THEN /\ dir' = open_append(dir, t)
            /\ open' = TRUE
            /\ mem_table' = Db_new_mem_table(dir)
            /\ storage' = [file_path |-> t, buf |-> <<>>, unlinked |-> FALSE]
            /\ run' = [origin |-> IF DOMAIN dir = {} THEN "new" ELSE "beside",
                       faulted |-> FALSE, idle |-> TRUE, purged |-> FALSE,
                       made_dir |-> FALSE]
            /\ last' = Call("open_empty", TRUE, <<>>, None, t)
            /\ applied' = {}
       ELSE /\ last' = Call("open_empty", FALSE, <<>>, None, t)
            /\ UNCHANGED <<dir, open, mem_table, storage, run, applied>>
    /\ pend' = NoPend
    /\ UNCHANGED <<dir_exists, faults, prior, dead, snap, seg>>

\* Db::init_from_existing (open_and_recover) with the clock reading t.
\* stop = NoStop: the call returns Ok.  Otherwise it returns an error or
\* the process stops, and no Db value comes to exist; with stop.at = "scan"
\* the error is one of scan_dir, before the clock is read.
Db_init_from_existing(t, stop) ==
    /\ ~open
    /\ LET scan == scan_or_create(dir_exists, dir, stop.at = "scan")
           files == scan.files
           mem == fold_files(MemTable_new, dir, files)
           w == Storage_commit(dump_entries(Writer(<<>>), get_all(mem)), NoFail)
       IN  /\ dir_exists' = scan.exists
           /\ IF ~scan.ok
              THEN /\ stop.at = "scan" => faults < MaxFaults
                   /\ faults' = IF stop.at = "scan" THEN faults + 1 ELSE faults
                   /\ last' = Call("recover", FALSE, <<>>, None, 0)
                   /\ pend' = [pend EXCEPT !.at = "scan"]
                   /\ UNCHANGED <<dir, ticks, open, mem_table, storage, run,
                                  applied>>
              ELSE
              /\ ticks' = ticks + 1
              /\ stop.at = "write" => stop.n < Len(w.out)
              /\ stop.at = "remove" => stop.n < Len(files)
              /\ dir' = recover_dir(dir, files, t, w.out, stop)
              /\ IF stop = NoStop
                 THEN /\ open' = TRUE
                      /\ mem_table' = mem
                      /\ storage' = [file_path |-> t, buf |-> <<>>,
                                     unlinked |-> t \notin DOMAIN dir']
                      /\ run' = [origin |-> "recover", faulted |-> FALSE,
                                 idle |-> TRUE, purged |-> FALSE,
                                 made_dir |-> ~dir_exists]
                      /\ last' = Call("recover", TRUE, <<>>, None, t)
                      /\ pend' = pend
                      /\ applied' = {records_of(dir, files)[i].key :
                                         i \in 1..Len(records_of(dir, files))}
                      /\ UNCHANGED faults
                 ELSE /\ faults < MaxFaults
                      /\ faults' = faults + 1
                      /\ last' = Call("recover", FALSE, <<>>, None, t)
                      /\ pend' = [active |-> TRUE,
                                  mem |-> IF pend.active THEN pend.mem ELSE mem,
                                  at |-> stop.at]
                      /\ UNCHANGED <<open, mem_table, storage, run, applied>>
    /\ UNCHANGED <<prior, dead, snap, seg>>

\* Db::set with the clock reading t.  fa and fc say how the flush inside
\* Storage::set (when the buffer overflows) and the one of commit go.
Db_set(key, value, t, fa, fc) ==
    /\ open
    /\ ticks' = ticks + 1
    /\ LET a == Storage_set(Writer(storage.buf), key, value, FALSE, t, fa)
           c == Storage_commit(a, fc)
       IN  /\ storage' = [storage EXCEPT !.buf = c.buf]
           /\ dir' = file_write(dir, storage, c.out)
           /\ mem_table' = Db_set_mem_table(mem_table, c.ok, key, value, t)
           /\ last' = Call("set", c.ok, key, Some(value), t)
           /\ dead' = IF c.ok THEN dead \ {key} ELSE dead
           /\ applied' = IF c.ok THEN applied \cup {key} ELSE applied
           /\ run' = [run EXCEPT !.faulted = @ \/ ~c.ok, !.idle = FALSE]
           /\ faults' = IF c.ok THEN faults ELSE faults + 1
    /\ faults' <= MaxFaults
    /\ pend' = NoPend
    /\ UNCHANGED <<dir_exists, open, prior, snap, seg>>

\* Db::delete with the clock reading t.
Db_delete(key, t, fa, fc) ==
    /\ open
    /\ ticks' = ticks + 1
    /\ LET a == Storage_delete(Writer(storage.buf), key, t, fa)
           c == Storage_commit(a, fc)
       IN  /\ storage' = [storage EXCEPT !.buf = c.buf]
           /\ dir' = file_write(dir, storage, c.out)
           /\ mem_table' = Db_delete_mem_table(mem_table, c.ok, key, t)
           /\ last' = Call("delete", c.ok, key, None, t)
           /\ dead' = IF c.ok THEN dead \cup {key} ELSE dead
           /\ applied' = IF c.ok THEN applied \cup {key} ELSE applied
           /\ run' = [run EXCEPT !.faulted = @ \/ ~c.ok, !.idle = FALSE]
           /\ faults' = IF c.ok THEN faults ELSE faults + 1
    /\ faults' <= MaxFaults
    /\ pend' = NoPend
    /\ UNCHANGED <<dir_exists, open, prior, snap, seg>>

\* The Db value is dropped (engine close): BufWriter's Drop flushes what
\* is still buffered and ignores the result; fail says how that flush goes.
Db_drop(fail) ==
    /\ open
    /\ LET w == flush_buf(Writer(storage.buf), fail)
       IN  dir' = file_write(dir, storage, w.out)
    /\ open' = FALSE
    /\ mem_table' = MemTable_new
    /\ storage' = NoStorage
    /\ run' = NoRun
    /\ prior' = [exit |-> "close", mem |-> mem_table, run |-> Kept(run),
                 file |-> storage.file_path]
    /\ last' = Call("close", TRUE, <<>>, None, 0)
    /\ pend' = NoPend
    /\ applied' = {}
    /\ UNCHANGED <<dir_exists, ticks, faults, dead, snap, seg>>

\* The process stops inside the flush of Db::set or Db::delete, after n
\* bytes of the buffer reached the file; nothing is dropped, so the rest
\* of the buffer is lost.
Db_stopped(w, n) ==
    /\ open
    /\ ticks' = ticks + 1
    /\ faults < MaxFaults
    /\ faults' = faults + 1
    /\ n < Len(w.buf)
    /\ dir' = file_write(dir, storage, flush_buf(w, n).out)
    /\ open' = FALSE
    /\ mem_table' = MemTable_new
    /\ storage' = NoStorage
    /\ run' = NoRun
    /\ prior' = [exit |-> "stop", mem |-> mem_table, run |-> Kept(run),
                 file |-> storage.file_path]
    /\ last' = Call("stop", FALSE, <<>>, None, 0)
    /\ pend' = NoPend
    /\ applied' = {}
    /\ UNCHANGED <<dir_exists, dead, snap, seg>>

\* Db::purge_database.  Storage::purge_storage returns the error of
\* remove_file when the file of the writer is not in the directory any
\* more, and the memtable is then left as it is.  The writer that is
\* replaced is dropped, and what it still buffered goes to the file that
\* was removed.
Db_purge_database ==
    /\ open
    /\ IF ~storage.unlinked
       THEN /\ dir' = purge_storage(dir, storage)
            /\ storage' = [storage EXCEPT
                               !.buf = <<>>,
                               !.unlinked = storage.file_path \notin DOMAIN dir']
            /\ mem_table' = purge_mem_table(mem_table)
            /\ applied' = {}
            /\ dead' = LET rest == records_of(dir', scan_dir(dir'))
                       IN  {k \in dead :
                               /\ \E i \in 1..Len(rest) : rest[i].key = k
                               /\ last_record(rest, k).deleted}
            /\ run' = [run EXCEPT !.idle = FALSE, !.purged = TRUE]
            /\ last' = Call("purge", TRUE, <<>>, None, 0)
       ELSE /\ last' = Call("purge", FALSE, <<>>, None, 0)
            /\ UNCHANGED <<dir, storage, mem_table, applied, run, dead>>
    /\ pend' = NoPend
    /\ UNCHANGED <<dir_exists, open, ticks, faults, prior, snap, seg>>

\* Db::get_snapshot: the blob goes to the caller.
Db_get_snapshot ==
    /\ open
    /\ snap' = [snap EXCEPT !.taken = TRUE,
                            !.blob = get_snapshot(get_all(mem_table)),
                            !.mem = mem_table]
    /\ last' = Call("export", TRUE, <<>>, None, 0)
    /\ pend' = NoPend
    /\ UNCHANGED <<dir_exists, dir, open, mem_table, storage, ticks, faults, run,
                   prior, dead, applied, seg>>

\* Db::set_snapshot of the blob raw_data.  The blob is appended to the
\* active segment and flushed; the last file of the enumeration is read
\* whole and every entry of it is put into the memtable.  unwrap panics on
\* a directory without files and on an entry without a value: the call
\* does not return, and the Db value is dropped when the panic unwinds.
Db_set_snapshot(raw_data) ==
    /\ open
    /\ snap' = [snap EXCEPT !.imports = @ + 1]
    /\ LET w == Storage_write_all(Writer(storage.buf), raw_data, NoFail)
           d1 == file_write(dir, storage, w.out)
           files == scan_dir(d1)
           data == IF files = <<>> THEN <<>> ELSE collect(d1[files[Len(files)]])
           puts == unwrapped(data)
           mem == put_entries(mem_table, puts)
           keys == {puts[i].key : i \in 1..Len(puts)}
       IN  /\ dir' = d1
           /\ dead' = dead \ keys
           /\ IF files # <<>> /\ puts = data
              THEN /\ mem_table' = mem
                   /\ storage' = [storage EXCEPT !.buf = w.buf]
                   /\ applied' = applied \cup keys
                   /\ run' = [run EXCEPT !.idle = FALSE]
                   /\ last' = Call("import", TRUE, <<>>, None, 0)
                   /\ UNCHANGED <<open, prior>>
              ELSE /\ open' = FALSE
                   /\ mem_table' = MemTable_new
                   /\ storage' = NoStorage
                   /\ applied' = {}
                   /\ run' = NoRun
                   /\ prior' = [exit |-> "panic", mem |-> mem, run |-> Kept(run),
                                file |-> storage.file_path]
                   /\ last' = Call("import", FALSE, <<>>, None, 0)
    /\ pend' = NoPend
    /\ UNCHANGED <<dir_exists, ticks, faults, seg>>

\* utils::remove_dir, as the callers do between two engines: the
\* directory goes with every file in it.
remove_dir ==
    /\ dir_exists /\ ~open
    /\ dir_exists' = FALSE
    /\ dir' = <<>>
    /\ dead' = {}
    /\ last' = Call("remove_dir", TRUE, <<>>, None, 0)
    /\ pend' = NoPend
    /\ UNCHANGED <<open, mem_table, storage, ticks, faults, run, prior, applied,
                   snap, seg>>

(***************************************************************************)
(* The specifications.                                                     *)
(***************************************************************************)
\* How many bytes a failing flush writes before it fails.
FailPoints == {0, HeaderBytes + 1}
\* How many bytes of a buffer of len bytes, which ends with a record whose
\* key has key_len bytes, reached the file when the process stopped: one
\* place inside each field of that record.
StopPoints(len, key_len) ==
    LET rec == len - Len(storage.buf)
    IN  {len - rec + 1, len - rec + HeaderBytes, len - rec + HeaderBytes + key_len,
         len - TimestampBytes, len - 1}
\* How many bytes of the new segment reached the file when the recovery
\* stopped, for a new segment of len bytes.
WritePoints ==
    LET len == Len(dump_entries(Writer(<<>>),
                   get_all(fold_files(MemTable_new, dir, scan_dir(dir)))).buf)
    IN  {0, 1, HeaderBytes, len - 1} \cap 0..len

\* The calls of a behaviour in which the clock is read at most limit times.
OpenEmpty(limit) == ticks < limit /\ Db_new(Now)
Recover(limit) == ticks < limit /\ Db_init_from_existing(Now, NoStop)
Set(limit) ==
    \E key \in Keys, value \in Values :
        ticks < limit /\ Db_set(key, value, Now, NoFail, NoFail)
Delete(limit) ==
    \E key \in Keys : ticks < limit /\ Db_delete(key, Now, NoFail, NoFail)
Close == Db_drop(NoFail)

Next ==
    \/ create_dir
    \/ OpenEmpty(MaxTicks)
    \/ Recover(MaxTicks)
    \/ Set(MaxTicks)
    \/ Delete(MaxTicks)
    \/ Close

Spec == Init /\ [][Next]_vars

\* The same calls with an I/O failure (SetFails, DeleteFails, CloseFails)
\* or with the process stopping inside them.
SetFails ==
    \E key \in Keys, value \in Values, fail \in FailPoints :
        /\ ticks < MaxFaultTicks /\ faults < MaxFaults /\ open
        /\ \/ storage.buf # <<>> /\ Db_set(key, value, Now, fail, NoFail)
           \/ Db_set(key, value, Now, NoFail, fail)
        /\ ~last'.ok
DeleteFails ==
    \E key \in Keys, fail \in FailPoints :
        /\ ticks < MaxFaultTicks /\ faults < MaxFaults /\ open
        /\ \/ storage.buf # <<>> /\ Db_delete(key, Now, fail, NoFail)
           \/ Db_delete(key, Now, NoFail, fail)
        /\ ~last'.ok
SetStopped ==
    \E key \in Keys, value \in Values :
        /\ ticks < MaxFaultTicks /\ faults < MaxFaults /\ open
        /\ LET w == Storage_set(Writer(storage.buf), key, value, FALSE, Now, NoFail)
           IN  \E n \in StopPoints(Len(w.buf), Len(key)) : Db_stopped(w, n)
DeleteStopped ==
    \E key \in Keys :
        /\ ticks < MaxFaultTicks /\ faults < MaxFaults /\ open
        /\ LET w == Storage_delete(Writer(storage.buf), key, Now, NoFail)
           IN  \E n \in StopPoints(Len(w.buf), Len(key)) : Db_stopped(w, n)
RecoverFails ==
    /\ ticks < MaxFaultTicks /\ faults < MaxFaults /\ ~open
    /\ \E at \in {"write", "remove"} :
        \E n \in IF at = "write" THEN WritePoints ELSE 0..(Cardinality(DOMAIN dir) - 1) :
            Db_init_from_existing(Now, [at |-> at, n |-> n])
CloseFails ==
    \E fail \in FailPoints : fail < Len(storage.buf) /\ Db_drop(fail)
\* open_and_recover whose enumeration of the directory fails with an error
\* that is not NotFound.
RecoverScanFails ==
    /\ faults < MaxFaults
    /\ Db_init_from_existing(Now, [at |-> "scan", n |-> 0])

\* Calls that fail with an I/O error, the engine staying in use.
NextFaults ==
    \/ create_dir
    \/ OpenEmpty(MaxFaultTicks)
    \/ Recover(MaxFaultTicks)
    \/ Set(MaxFaultTicks)
    \/ Delete(MaxFaultTicks)
    \/ Close
    \/ SetFails
    \/ DeleteFails
    \/ CloseFails
    \/ RecoverScanFails

SpecFaults == Init /\ [][NextFaults]_vars

\* Calls during which the process stops, and recoveries that do not end.
NextStops ==
    \/ create_dir
    \/ OpenEmpty(MaxFaultTicks)
    \/ Recover(MaxFaultTicks)
    \/ Set(MaxFaultTicks)
    \/ Delete(MaxFaultTicks)
    \/ Close
    \/ SetStopped
    \/ DeleteStopped
    \/ RecoverFails

SpecStops == Init /\ [][NextStops]_vars

\* The calls of Spec and purge.
Purge == Db_purge_database

NextPurge ==
    \/ create_dir
    \/ OpenEmpty(MaxTicks)
    \/ Recover(MaxTicks)
    \/ Set(MaxTicks)
    \/ Delete(MaxTicks)
    \/ Close
    \/ Purge

SpecPurge == Init /\ [][NextPurge]_vars

\* The calls of Spec, snapshots taken and imported, and directories
\* removed between two engines.
Export == Db_get_snapshot
Import == snap.taken /\ snap.imports < MaxImports /\ Db_set_snapshot(snap.blob)

NextSnapshot ==
    \/ create_dir
    \/ remove_dir
    \/ OpenEmpty(MaxSnapshotTicks)
    \/ Recover(MaxSnapshotTicks)
    \/ Set(MaxSnapshotTicks - 1)
    \/ Delete(MaxSnapshotTicks - 1)
    \/ Close
    \/ Export
    \/ Import

SpecSnapshot == Init /\ [][NextSnapshot]_vars

\* The calls of SpecFaults, snapshots taken and imported: an import into
\* an engine of which a set or delete has failed.
NextFaultsSnapshot ==
    \/ create_dir
    \/ OpenEmpty(MaxFaultTicks)
    \/ Recover(MaxFaultTicks)
    \/ Set(MaxFaultTicks)
    \/ Delete(MaxFaultTicks)
    \/ Close
    \/ SetFails
    \/ DeleteFails
    \/ Export
    \/ Import

SpecFaultsSnapshot == Init /\ [][NextFaultsSnapshot]_vars

\* A Storage on its own (as the tests of storage.rs and
\* storage_iterator.rs use it): Storage::new in a directory that exists,
\* set with either flag, delete, commit, and a StorageIterator collected
\* over the file.
Storage_new(t) ==
    /\ ~open /\ dir_exists /\ storage = NoStorage
    /\ dir' = open_append(dir, t)
    /\ storage' = [file_path |-> t, buf |-> <<>>, unlinked |-> FALSE]
    /\ ticks' = ticks + 1
    /\ seg' = NoSeg
    /\ last' = Call("storage_new", TRUE, <<>>, None, t)
    /\ UNCHANGED <<dir_exists, open, mem_table, faults, run, prior, pend, dead,
                   applied, snap>>

\* The bytes handed to the writer so far: those in the file and those
\* still buffered.
stream(d, st) == d[st.file_path] \o st.buf

Storage_set_call(key, value, deleted, timestamp) ==
    /\ ~open /\ storage # NoStorage /\ Len(seg.log) < MaxRecords
    /\ LET w == Storage_set(Writer(storage.buf), key, value, deleted, timestamp,
                            NoFail)
       IN  /\ storage' = [storage EXCEPT !.buf = w.buf]
           /\ dir' = file_write(dir, storage, w.out)
    /\ seg' = [seg EXCEPT !.log = Append(@, Entry(key,
                                                  IF deleted THEN None ELSE Some(value),
                                                  timestamp, deleted))]
    /\ last' = Call("put", TRUE, key, Some(value), timestamp)
    /\ UNCHANGED <<dir_exists, open, mem_table, ticks, faults, run, prior, pend,
                   dead, applied, snap>>

Storage_delete_call(key, timestamp) ==
    /\ ~open /\ storage # NoStorage /\ Len(seg.log) < MaxRecords
    /\ LET w == Storage_delete(Writer(storage.buf), key, timestamp, NoFail)
       IN  /\ storage' = [storage EXCEPT !.buf = w.buf]
           /\ dir' = file_write(dir, storage, w.out)
    /\ seg' = [seg EXCEPT !.log = Append(@, Entry(key, None, timestamp, TRUE))]
    /\ last' = Call("tombstone", TRUE, key, None, timestamp)
    /\ UNCHANGED <<dir_exists, open, mem_table, ticks, faults, run, prior, pend,
                   dead, applied, snap>>

Storage_commit_call ==
    /\ ~open /\ storage # NoStorage
    /\ LET w == Storage_commit(Writer(storage.buf), NoFail)
       IN  /\ storage' = [storage EXCEPT !.buf = w.buf]
           /\ dir' = file_write(dir, storage, w.out)
    /\ last' = Call("commit", TRUE, <<>>, None, 0)
    /\ UNCHANGED <<dir_exists, open, mem_table, ticks, faults, run, prior, pend,
                   dead, applied, snap, seg>>

\* StorageIterator::new(file_path) and collect, on a device that fails at
\* the offset bad.
StorageIterator_collect(bad) ==
    /\ ~open /\ storage # NoStorage
    /\ LET r == collect_io(dir[storage.file_path], 0, bad)
       IN  seg' = [seg EXCEPT !.entries = r.entries, !.err = r.err,
                              !.outcome = r.outcome]
    /\ last' = Call("read", TRUE, <<>>, None, bad)
    /\ UNCHANGED <<dir_exists, dir, open, mem_table, storage, ticks, faults, run,
                   prior, pend, dead, applied, snap>>

\* A timestamp of one byte and one of two bytes.
Timestamps == {ClockEpoch, 256 * ClockEpoch + 255}

StorageNew == ticks = 0 /\ Storage_new(Now)
Put ==
    \E key \in Keys, value \in Values, deleted \in BOOLEAN, t \in Timestamps :
        Storage_set_call(key, value, deleted, t)
PutTombstone == \E key \in Keys, t \in Timestamps : Storage_delete_call(key, t)
Commit == storage.buf # <<>> /\ Storage_commit_call
Read == \E bad \in {NoFail} : StorageIterator_collect(bad)
ReadFails ==
    /\ ~open /\ storage # NoStorage
    /\ \E bad \in {0, HeaderBytes, Len(dir[storage.file_path]) - 1} :
           bad >= 0 /\ StorageIterator_collect(bad)

NextCodec ==
    \/ create_dir
    \/ StorageNew
    \/ Put
    \/ PutTombstone
    \/ Commit
    \/ Read
    \/ ReadFails

SpecCodec == Init /\ [][NextCodec]_vars

\* The memtable on its own: set_or_insert and delete called on a MemTable
\* value that starts from MemTable::new, with keys of which one is a
\* prefix of two others.
MemKeys == {<<97>>, <<97, 97>>, <<97, 98>>, <<98>>}

MemTable_set_or_insert(key, value, timestamp) ==
    /\ ~open /\ ticks < MaxMemCalls
    /\ mem_table' = set_or_insert(mem_table, key, value, timestamp)
    /\ ticks' = ticks + 1
    /\ applied' = applied \cup {key}
    /\ last' = Call("put", TRUE, key, Some(value), timestamp)
    /\ UNCHANGED <<dir_exists, dir, open, storage, faults, run, prior, pend, dead,
                   snap, seg>>

MemTable_delete_call(key, timestamp) ==
    /\ ~open /\ ticks < MaxMemCalls
    /\ mem_table' = MemTable_delete(mem_table, key, timestamp)
    /\ ticks' = ticks + 1
    /\ applied' = applied \cup {key}
    /\ last' = Call("remove", TRUE, key, None, timestamp)
    /\ UNCHANGED <<dir_exists, dir, open, storage, faults, run, prior, pend, dead,
                   snap, seg>>

MemPut == \E key \in MemKeys, value \in Values : MemTable_set_or_insert(key, value, Now)
MemDelete == \E key \in MemKeys : MemTable_delete_call(key, Now)

NextMemTable ==
    \/ MemPut
    \/ MemDelete

SpecMemTable == Init /\ [][NextMemTable]_vars

\* The calls of Spec with a clock that is not monotonic (the system clock
\* can be set back): a reading is any of Readings, also one that was read
\* before and one that is the name of a segment of the directory.  The
\* last reading of a behaviour is one of an opening, and the values set
\* are not empty.
Readings == {ClockEpoch - 1, ClockEpoch}

OpenEmptyAt == \E t \in Readings : ticks < MaxClockTicks /\ Db_new(t)
RecoverAt ==
    \E t \in Readings : ticks < MaxClockTicks /\ Db_init_from_existing(t, NoStop)
SetAt ==
    \E key \in Keys, value \in Values \ {<<>>}, t \in Readings :
        ticks < MaxClockTicks - 1 /\ Db_set(key, value, t, NoFail, NoFail)
DeleteAt ==
    \E key \in Keys, t \in Readings :
        ticks < MaxClockTicks - 1 /\ Db_delete(key, t, NoFail, NoFail)

NextClock ==
    \/ create_dir
    \/ OpenEmptyAt
    \/ RecoverAt
    \/ SetAt
    \/ DeleteAt
    \/ Close

SpecClock == Init /\ [][NextClock]_vars

(***************************************************************************)
(* Properties.                                                             *)
(***************************************************************************)
\* The state right after open_and_recover returned Ok.
Recovered == last.op = "recover" /\ last.ok

\* A live record and a tombstone, as get returns them.
Live(key, value, timestamp) == Some(Entry(key, Some(value), timestamp, FALSE))
Tombstone(key, timestamp) == Some(Entry(key, None, timestamp, TRUE))

\* get(k) is the same for every key in the two memtables.
SameGets(a, b) == \A k \in Keys : MemTable_get(a, k) = MemTable_get(b, k)

\* The offset behind the last whole record of a file.
RECURSIVE end_of_records(_, _)
end_of_records(bytes, pos) ==
    LET n == StorageIterator_next(bytes, pos)
    IN  IF ~IsSome(n) THEN pos ELSE end_of_records(bytes, Unwrap(n).pos)

\* The memtable open_and_recover folds from the directory d in which the
\* file name is cut to its first len bytes.
fold_cut(d, name, len) ==
    fold_files(MemTable_new, [d EXCEPT ![name] = SubSeq(@, 1, len)], scan_dir(d))

\* The bytes of the record of a memtable entry.
encode(entry) ==
    IF entry.deleted
    THEN Storage_delete(Writer(<<>>), entry.key, entry.timestamp, NoFail).buf
    ELSE Storage_set(Writer(<<>>), entry.key, Unwrap(entry.value), FALSE,
                     entry.timestamp, NoFail).buf

\* The bytes occur in the file, one after the other.
occurs_in(bytes, file) ==
    \E off \in 0..(Len(file) - Len(bytes)) :
        SubSeq(file, off + 1, off + Len(bytes)) = bytes

----------------------------------------------------------------------------
\* C1: after a successful set(k, v), get(k) returns a live record with the
\* value v (and the timestamp of the call); after a successful delete(k),
\* get(k) returns a tombstone for k.
C1_GetReflectsLastWrite ==
    /\ (last.op = "set" /\ last.ok) =>
           Db_get(last.key) = Live(last.key, Unwrap(last.value), last.timestamp)
    /\ (last.op = "delete" /\ last.ok) =>
           Db_get(last.key) = Tombstone(last.key, last.timestamp)

\* A delete has just overwritten the live record of its key, in an engine
\* that started empty and holds another key too.
C1_Witness ==
    /\ last.op = "delete" /\ last.ok /\ run.origin = "new"
    /\ Len(mem_table.entities) = 2
    /\ \E i \in 1..Len(collect(dir[storage.file_path])) :
           LET r == collect(dir[storage.file_path])[i]
           IN  r.key = last.key /\ ~r.deleted

----------------------------------------------------------------------------
\* C2 as stated: after any sequence of successful set/delete calls, engine
\* close and open_and_recover, get(k) of the reopened engine returns for
\* every key the record it returned before the close, however the closed
\* engine had been opened.
C2_RoundTripOfAnyEngine ==
    (Recovered /\ prior.exit = "close") => SameGets(mem_table, prior.mem)

\* C2, amended: the same, for an engine that was opened by open_and_recover
\* or by open_empty on a directory without segments.
C2_RoundTrip ==
    (Recovered /\ prior.exit = "close" /\ prior.run.origin \in {"new", "recover"})
        => SameGets(mem_table, prior.mem)

\* An engine that started empty was closed with a live key and a deleted
\* key, and has been recovered.
C2_Witness ==
    /\ Recovered /\ prior.exit = "close" /\ prior.run.origin = "new"
    /\ \E k1, k2 \in Keys :
        /\ IsSome(MemTable_get(prior.mem, k1))
        /\ ~Unwrap(MemTable_get(prior.mem, k1)).deleted
        /\ IsSome(MemTable_get(prior.mem, k2))
        /\ Unwrap(MemTable_get(prior.mem, k2)).deleted

----------------------------------------------------------------------------
\* C3: in an engine opened by open_and_recover, every key that was deleted
\* and not set since reads as a tombstone (not live, not absent), after any
\* number of close / open_and_recover cycles; and the segment a recovery
\* has written carries a tombstone for every such key.
C3_TombstonesRetained ==
    (open /\ run.origin = "recover") =>
        \A k \in dead :
            /\ IsSome(Db_get(k))
            /\ Unwrap(Db_get(k)).deleted
            /\ Unwrap(Db_get(k)).value = None
            /\ Recovered =>
                   \E i \in 1..Len(collect(dir[storage.file_path])) :
                       LET r == collect(dir[storage.file_path])[i]
                       IN  r.key = k /\ r.deleted /\ r.value = None

\* The second recovery in a row of a directory with a deleted key.
C3_Witness ==
    /\ Recovered /\ dead # {}
    /\ prior.exit = "close" /\ prior.run.origin = "recover" /\ prior.run.idle

----------------------------------------------------------------------------
\* C4: when the last bytes of a segment are missing, fewer than the final
\* record has, open_and_recover recovers every record before that one and
\* drops it.  The process stops inside a set or delete when only a part of
\* the record has reached the file; every shorter part of it included, the
\* segment folds to the memtable of before the call, and that memtable is
\* what a recovery of the directory returns (for an engine whose memtable
\* started from the directory).
C4_TruncationTolerance ==
    /\ last.op = "stop" =>
           LET bytes == dir[prior.file]
           IN  \A len \in end_of_records(bytes, 0)..Len(bytes) :
                   /\ collect(SubSeq(bytes, 1, len)) = collect(bytes)
                   /\ fold_entries(MemTable_new, collect(SubSeq(bytes, 1, len)))
                          = prior.mem
    /\ (Recovered /\ prior.exit = "stop" /\ prior.run.origin # "beside") =>
           mem_table = prior.mem

\* A recovery of a segment that ends inside a record, with records before.
C4_Witness ==
    /\ Recovered /\ prior.exit = "stop" /\ prior.run.origin = "new"
    /\ mem_table.entities # <<>>

----------------------------------------------------------------------------
\* C5: open_and_recover run twice back-to-back (no writes in between)
\* yields the second time the memtable it yielded the first time.
C5_CompactionIdempotent ==
    (Recovered /\ prior.exit = "close" /\ prior.run.origin = "recover"
               /\ prior.run.idle)
        => mem_table = prior.mem

\* The second of two recoveries in a row, of a live and a deleted key.
C5_Witness ==
    /\ Recovered /\ prior.exit = "close" /\ prior.run.origin = "recover"
    /\ prior.run.idle
    /\ Len(mem_table.entities) = 2
    /\ mem_table.entities[1].deleted /\ ~mem_table.entities[2].deleted

----------------------------------------------------------------------------
\* C6: when open_and_recover returns Ok, the directory holds exactly one
\* segment; it is a new file, the one the writer of the engine is bound to,
\* and none of the files of before is left.
C6_OneSegment ==
    [][(last'.op = "recover" /\ last'.ok) =>
           /\ DOMAIN dir' = {storage'.file_path}
           /\ storage'.file_path \notin DOMAIN dir
           /\ ~storage'.unlinked]_vars

\* A recovery of a directory that held two segments or more.
C6_Witness ==
    /\ Recovered /\ prior.exit = "close" /\ prior.run.origin = "beside"
    /\ Len(mem_table.entities) = 2

----------------------------------------------------------------------------
\* C7: the segment open_and_recover writes holds one record for each key
\* that occurs in the segments of before and no other, in ascending key
\* order, each equal to the record of the memtable for the key and to the
\* last record with the key in the segments of before.
C7_CompactedSegment ==
    [][(last'.op = "recover" /\ last'.ok) =>
           LET before == records_of(dir, scan_dir(dir))
               segment == collect(dir'[storage'.file_path])
           IN  /\ segment = mem_table'.entities
               /\ {segment[i].key : i \in 1..Len(segment)}
                      = {before[i].key : i \in 1..Len(before)}
               /\ \A i \in 1..(Len(segment) - 1) :
                      LexLess(segment[i].key, segment[i + 1].key)
               /\ \A i \in 1..Len(segment) :
                      /\ segment[i] = last_record(before, segment[i].key)
                      /\ segment[i].deleted <=> segment[i].value = None]_vars

\* A recovery has written a segment of two records, a tombstone among
\* them, out of two segments or more.
C7_Witness ==
    /\ Recovered /\ prior.run.origin = "beside"
    /\ Len(collect(dir[storage.file_path])) = 2
    /\ \E i \in 1..2 : collect(dir[storage.file_path])[i].deleted

----------------------------------------------------------------------------
\* C8: a set or delete whose append or commit fails returns the failure
\* and leaves the memtable as it was; and the record of every entry of the
\* memtable has been written to the active segment.
C8_FailedWriteKeepsMemTable ==
    /\ [][(last'.op \in {"set", "delete"} /\ ~last'.ok)
              => mem_table' = mem_table]_vars
    /\ [](open /\ ~storage.unlinked =>
              \A i \in 1..Len(mem_table.entities) :
                  occurs_in(encode(mem_table.entities[i]), dir[storage.file_path]))

\* A set has failed in an engine that holds a record, and bytes of the
\* failed call are left in the buffer of the writer.
C8_Witness ==
    /\ last.op = "set" /\ ~last.ok
    /\ mem_table.entities # <<>>
    /\ storage.buf # <<>>

----------------------------------------------------------------------------
\* C9: after set/delete calls of which some failed, closing the engine and
\* running open_and_recover yields for every key the get result of before
\* the close.
C9_FailedWritesLeaveNothing ==
    (Recovered /\ prior.exit = "close" /\ prior.run.origin \in {"new", "recover"}
               /\ prior.run.faulted)
        => SameGets(mem_table, prior.mem)

----------------------------------------------------------------------------
\* C10: when open_and_recover fails or the process stops inside it, with
\* the new segment written in part (whatever part) or with some of the
\* files of before removed, the directory still folds to the memtable of
\* an uninterrupted recovery, and a later open_and_recover returns it.
C10_RecoveryRestartable ==
    /\ (last.op = "recover" /\ ~last.ok /\ pend.at = "write") =>
           \A len \in 0..Len(dir[last.timestamp]) :
               fold_cut(dir, last.timestamp, len) = pend.mem
    /\ (last.op = "recover" /\ ~last.ok /\ pend.at = "remove") =>
           fold_files(MemTable_new, dir, scan_dir(dir)) = pend.mem
    /\ (Recovered /\ pend.active) => mem_table = pend.mem

\* A recovery after one that stopped while it wrote the new segment, of a
\* directory with a record.
C10_Witness ==
    /\ Recovered /\ pend.active /\ pend.at = "write"
    /\ mem_table.entities # <<>>
    /\ Cardinality(DOMAIN dir) = 1

----------------------------------------------------------------------------
\* C11: delete(k) of a key that no set or delete has been applied for is
\* not an error: it returns success, appends a tombstone record for k to
\* the active segment and leaves a tombstone for k in the memtable, so that
\* get(k) returns a tombstone and not nothing.
C11_DeleteOfAbsentKey ==
    [][(last'.op = "delete" /\ last'.key \notin applied) =>
           /\ last'.ok
           /\ MemTable_get(mem_table, last'.key) = None
           /\ MemTable_get(mem_table', last'.key)
                  = Tombstone(last'.key, last'.timestamp)
           /\ Len(mem_table'.entities) = Len(mem_table.entities) + 1
           /\ collect(dir'[storage.file_path])
                  = collect(dir[storage.file_path])
                        \o <<Entry(last'.key, None, last'.timestamp, TRUE)>>]_vars

\* The first call on an engine that started empty was a delete.
C11_Witness ==
    /\ last.op = "delete" /\ last.ok /\ run.origin = "new"
    /\ applied = {last.key}
    /\ Len(collect(dir[storage.file_path])) = 1
    /\ collect(dir[storage.file_path])[1].deleted

----------------------------------------------------------------------------
\* C12: get(k) returns nothing exactly when no set or delete for k has
\* been applied to the memtable since it was created or last purged; what
\* it returns otherwise is a record for k, and for a deleted key a record
\* with deleted = true and no value, which is not "nothing".
C12_GetNothingIffNeverWritten ==
    open =>
        \A k \in Keys :
            /\ Db_get(k) = None <=> k \notin applied
            /\ IsSome(Db_get(k)) =>
                   /\ Unwrap(Db_get(k)).key = k
                   /\ Unwrap(Db_get(k)).deleted <=> Unwrap(Db_get(k)).value = None
            /\ (k \in dead /\ k \in applied) =>
                   /\ IsSome(Db_get(k))
                   /\ Unwrap(Db_get(k)).deleted
                   /\ Unwrap(Db_get(k)).value = None

\* An engine in which one key is deleted and the other has never been
\* written.
C12_Witness ==
    /\ open /\ Cardinality(applied) = 1
    /\ \E k \in Keys : IsSome(Db_get(k)) /\ Unwrap(Db_get(k)).deleted
    /\ \E k \in Keys : Db_get(k) = None

----------------------------------------------------------------------------
\* The size the entries of a memtable are charged with:
\* key_len + (value_len if live, else 0) + 17 for each.
RECURSIVE charge(_)
charge(entities) ==
    IF entities = <<>> THEN 0
    ELSE LET e == Head(entities)
         IN  Len(e.key) + (IF e.deleted THEN 0 ELSE Len(Unwrap(e.value))) + 17
                 + charge(Tail(entities))

\* C13: the size counter of the memtable equals the sum over its entries
\* of key_len + (value_len if live else 0) + 17, after construction (empty
\* or from a list of records) and after any sequence of put/delete; it is
\* never below zero.
C13_SizeAccounting ==
    /\ mem_table.size = charge(mem_table.entities)
    /\ mem_table.size >= 0
    /\ init_from_file(mem_table.entities).size = charge(mem_table.entities)
    /\ init_from_file(<<>>) = MemTable_new

\* A memtable in which a live entry was replaced by a tombstone, beside a
\* live entry with a value.
C13_Witness ==
    /\ open /\ run.origin = "new" /\ last.op = "delete" /\ last.ok
    /\ Len(mem_table.entities) = 2
    /\ Len(collect(dir[storage.file_path])) = 3
    /\ mem_table.size = Len(mem_table.entities[1].key)
                            + Len(mem_table.entities[2].key) + 17 + 17 + 1

----------------------------------------------------------------------------
\* C16: after purge returns successfully get(k) returns nothing for every
\* key, the memtable is empty, and the active segment file exists and is
\* empty; the records of later set/delete calls are appended to that same
\* file, which alone folds to the memtable.
C16_PurgeEmptiesEngine ==
    /\ []((last.op = "purge" /\ last.ok) =>
              /\ mem_table = MemTable_new
              /\ \A k \in Keys : Db_get(k) = None
              /\ storage.file_path \in DOMAIN dir
              /\ dir[storage.file_path] = <<>>)
    /\ []((open /\ run.purged) =>
              /\ storage.file_path \in DOMAIN dir /\ ~storage.unlinked
              /\ fold_entries(MemTable_new, collect(dir[storage.file_path]))
                     = mem_table)
    /\ [][(run.purged /\ last'.op \in {"set", "delete"} /\ last'.ok) =>
              collect(dir'[storage.file_path])
                  = collect(dir[storage.file_path])
                        \o <<Entry(last'.key,
                                   IF last'.op = "set" THEN last'.value ELSE None,
                                   last'.timestamp, last'.op = "delete")>>]_vars

\* An engine was purged, and two keys were written after that.
C16_Witness ==
    /\ open /\ run.purged /\ last.op \in {"set", "delete"} /\ last.ok
    /\ Len(collect(dir[storage.file_path])) = 2
    /\ Len(mem_table.entities) = 2

----------------------------------------------------------------------------
\* C17: purge leaves every segment file other than the active one as it
\* is: in a directory that held segments when open_empty was called, those
\* segments are there with the same content after purge.
C17_PurgeLeavesOtherSegments ==
    [][last'.op = "purge" =>
           \A f \in DOMAIN dir \ {storage.file_path} :
               f \in DOMAIN dir' /\ dir'[f] = dir[f]]_vars

\* A purge by an engine opened with open_empty beside a segment that holds
\* a record.
C17_Witness ==
    /\ last.op = "purge" /\ last.ok /\ run.origin = "beside"
    /\ \E f \in DOMAIN dir \ {storage.file_path} : collect(dir[f]) # <<>>

----------------------------------------------------------------------------
\* C18: on an engine opened by open_and_recover, purge empties everything:
\* the directory holds no record of before the purge, what a recovery
\* would fold from the directory is the memtable (the writes made after
\* the purge), and that is what open_and_recover returns after a close.
C18_PurgeOfRecoveredEngine ==
    /\ (last.op = "purge" /\ last.ok /\ run.origin = "recover") =>
           records_of(dir, scan_dir(dir)) = <<>>
    /\ (open /\ run.origin = "recover" /\ run.purged) =>
           /\ fold_files(MemTable_new, dir, scan_dir(dir)) = mem_table
           /\ \A k \in Keys : k \notin applied => Db_get(k) = None
    /\ (Recovered /\ prior.exit = "close" /\ prior.run.origin = "recover"
                  /\ prior.run.purged) =>
           mem_table = prior.mem

\* A recovery after an engine that was recovered, purged, written to and
\* closed.
C18_Witness ==
    /\ Recovered /\ prior.exit = "close" /\ prior.run.origin = "recover"
    /\ prior.run.purged
    /\ Len(mem_table.entities) = 1

----------------------------------------------------------------------------
\* A fresh empty engine: nothing was written through it, its memtable and
\* its segment are empty.
Fresh ==
    /\ open /\ run.idle /\ mem_table = MemTable_new
    /\ ~storage.unlinked /\ dir[storage.file_path] = <<>>

\* C14: importing the blob snapshot_export returned into a fresh empty
\* engine returns successfully and makes get(k) return, for every key that
\* is live in the source, the live record of the source (same value and
\* timestamp), and nothing for a key that is a tombstone or absent in the
\* source.
C14_SnapshotRoundTrip ==
    [][(last'.op = "import" /\ Fresh) =>
           /\ last'.ok
           /\ \A k \in Keys :
                  LET src == MemTable_get(snap.mem, k)
                  IN  MemTable_get(mem_table', k)
                          = IF IsSome(src) /\ ~Unwrap(src).deleted
                            THEN src ELSE None]_vars

\* The snapshot of an engine with a live and a deleted key was imported
\* into an engine opened by open_empty in a directory without segments.
C14_Witness ==
    /\ last.op = "import" /\ last.ok /\ run.origin = "new"
    /\ Len(snap.mem.entities) = 2
    /\ Len(mem_table.entities) = 1
    /\ collect(dir[storage.file_path]) = mem_table.entities

----------------------------------------------------------------------------
\* The live entries of a sequence of entries, in their order.
live_entries(entries) == SelectSeq(entries, LAMBDA e : ~e.deleted)

\* C15: the blob snapshot_export returns is the records of the live
\* entries of the memtable and nothing else: one per live key, in
\* ascending key order, each with the deleted flag 0, no tombstone; the
\* call changes neither the memtable nor a segment.
C15_SnapshotOfLiveEntries ==
    /\ [](snap.taken =>
              LET records == collect(snap.blob)
              IN  /\ records = live_entries(snap.mem.entities)
                  /\ end_of_records(snap.blob, 0) = Len(snap.blob)
                  /\ \A i \in 1..Len(records) : ~records[i].deleted
                  /\ \A i \in 1..(Len(records) - 1) :
                         LexLess(records[i].key, records[i + 1].key)
                  /\ {records[i].key : i \in 1..Len(records)}
                         = {k \in Keys : /\ IsSome(MemTable_get(snap.mem, k))
                                         /\ ~Unwrap(MemTable_get(snap.mem, k)).deleted})
    /\ [][last'.op = "export" =>
              /\ snap'.mem = mem_table
              /\ mem_table' = mem_table /\ dir' = dir /\ storage' = storage]_vars

\* A snapshot of a memtable with a live and a deleted key.
C15_Witness ==
    /\ last.op = "export" /\ snap.taken
    /\ Len(snap.mem.entities) = 2
    /\ Len(collect(snap.blob)) = 1

----------------------------------------------------------------------------
\* C19: open_empty on a directory that does not exist creates the
\* directory and returns an engine with an empty memtable and a fresh
\* segment; it does not fail or panic.
C19_OpenEmptyCreatesDirectory ==
    last.op = "open_empty" =>
        /\ last.ok /\ open /\ dir_exists
        /\ mem_table = MemTable_new
        /\ storage.file_path \in DOMAIN dir /\ dir[storage.file_path] = <<>>

----------------------------------------------------------------------------
\* C20: open_empty does not scan the directory: the engine it returns has
\* an empty memtable (get returns nothing for every key, those stored in
\* the segments of the directory included), and the files the directory
\* held are left as they are.
C20_OpenEmptyDoesNotScan ==
    [][(last'.op = "open_empty" /\ last'.ok) =>
           /\ mem_table' = MemTable_new
           /\ \A k \in Keys : MemTable_get(mem_table', k) = None
           /\ \A f \in DOMAIN dir : f \in DOMAIN dir' /\ dir'[f] = dir[f]]_vars

\* open_empty has returned in a directory with a segment that holds a
\* record.
C20_Witness ==
    /\ last.op = "open_empty" /\ last.ok /\ run.origin = "beside"
    /\ \E f \in DOMAIN dir \ {storage.file_path} : collect(dir[f]) # <<>>

----------------------------------------------------------------------------
\* C21: open_and_recover on a directory that does not exist creates the
\* directory and returns an engine with an empty memtable and one empty
\* segment, on which a set followed by get returns the record that was
\* set; an error of the enumeration of another kind is returned as a
\* failure, no engine comes to exist and the directory is left as it was.
C21_RecoverOfMissingDirectory ==
    /\ [][(last'.op = "recover" /\ ~dir_exists /\ faults' = faults) =>
              /\ last'.ok /\ open' /\ dir_exists'
              /\ mem_table' = MemTable_new
              /\ DOMAIN dir' = {storage'.file_path}
              /\ dir'[storage'.file_path] = <<>>
              /\ ~storage'.unlinked]_vars
    /\ []((open /\ run.made_dir /\ last.op = "set" /\ last.ok) =>
              Db_get(last.key) = Live(last.key, Unwrap(last.value), last.timestamp))
    /\ [][(last'.op = "recover" /\ faults' # faults) =>
              /\ ~last'.ok /\ ~open'
              /\ dir' = dir /\ dir_exists' = dir_exists]_vars

\* A set on the engine open_and_recover returned for a directory that did
\* not exist.
C21_Witness ==
    /\ open /\ run.made_dir /\ last.op = "set" /\ last.ok
    /\ DOMAIN dir = {storage.file_path}
    /\ Len(collect(dir[storage.file_path])) = 1

----------------------------------------------------------------------------
\* C24: open_and_recover applies the segments in ascending order of their
\* file names and the records of a segment in the order they were written:
\* the record it recovers for a key is the last record with the key in
\* that order, whatever the timestamps of the records are (a record with a
\* smaller timestamp that comes later wins).
C24_LastWriteWinsByAppearance ==
    [][(last'.op = "recover" /\ last'.ok) =>
           LET files == scan_dir(dir)
               records == records_of(dir, files)
           IN  /\ \A i \in 1..(Len(files) - 1) :
                      LexLess(to_string(files[i]), to_string(files[i + 1]))
               /\ mem_table' = fold_entries(MemTable_new, records)
               /\ \A k \in Keys :
                      MemTable_get(mem_table', k)
                          = IF \E i \in 1..Len(records) : records[i].key = k
                            THEN Some(last_record(records, k))
                            ELSE None]_vars

\* A recovery of two segments has returned for a key a record whose
\* timestamp is smaller than that of an earlier record with the key.
C24_Witness ==
    /\ Recovered /\ prior.exit = "close" /\ prior.run.origin = "beside"
    /\ \E k \in Keys :
           /\ IsSome(Db_get(k))
           /\ IsSome(MemTable_get(prior.mem, k))
           /\ Unwrap(Db_get(k)).timestamp < Unwrap(MemTable_get(prior.mem, k)).timestamp

----------------------------------------------------------------------------
\* C30: the segment open_and_recover opens is a new file, none of the
\* files it enumerated, whatever the clock reading is (the name of a
\* segment of the directory included); the removal of the enumerated files
\* leaves the segment it has written, the one the engine it returns writes
\* to, in the directory.
C30_RecoveryOpensNewSegment ==
    [][(last'.op = "recover" /\ last'.ok) =>
           /\ storage'.file_path \notin DOMAIN dir
           /\ storage'.file_path \in DOMAIN dir'
           /\ collect(dir'[storage'.file_path]) = mem_table'.entities]_vars

----------------------------------------------------------------------------
\* C23: a live record with an empty value is not a tombstone: after
\* set(k, empty), get(k) returns a live record whose value is present and
\* empty, and after close and open_and_recover get(k) still returns that
\* record, not a tombstone and not nothing.
C23_EmptyValueIsLive ==
    /\ (last.op = "set" /\ last.ok /\ last.value = Some(<<>>)) =>
           /\ Db_get(last.key) = Live(last.key, <<>>, last.timestamp)
           /\ Unwrap(Db_get(last.key)).value # None
           /\ ~Unwrap(Db_get(last.key)).deleted
    /\ (Recovered /\ prior.exit = "close") =>
           \A k \in Keys :
               LET before == MemTable_get(prior.mem, k)
               IN  (IsSome(before) /\ Unwrap(before).value = Some(<<>>)) =>
                       /\ Db_get(k) = before
                       /\ \E i \in 1..Len(collect(dir[storage.file_path])) :
                              collect(dir[storage.file_path])[i] = Unwrap(before)

\* A recovery has returned a live record with an empty value beside a
\* tombstone.
C23_Witness ==
    /\ Recovered /\ prior.exit = "close"
    /\ \E k1, k2 \in Keys :
           /\ MemTable_get(prior.mem, k1) = Db_get(k1)
           /\ IsSome(Db_get(k1))
           /\ Unwrap(Db_get(k1)).value = Some(<<>>) /\ ~Unwrap(Db_get(k1)).deleted
           /\ IsSome(Db_get(k2))
           /\ Unwrap(Db_get(k2)).value = None /\ Unwrap(Db_get(k2)).deleted

----------------------------------------------------------------------------
\* C25: open_and_recover removes no file of before until the new segment
\* is written whole and committed: wherever the call stops, either every
\* file of before is still there as it was, or the new segment holds the
\* whole dump; and the files that are there, folded in the order of their
\* names, yield the memtable the files of before yield.
C25_NoRemovalBeforeCommit ==
    [][last'.op = "recover" =>
           LET mem == fold_files(MemTable_new, dir, scan_dir(dir))
               new == last'.timestamp
               whole == /\ new \in DOMAIN dir'
                        /\ end_of_records(dir'[new], 0) = Len(dir'[new])
                        /\ collect(dir'[new]) = mem.entities
           IN  /\ (\A f \in DOMAIN dir : f \in DOMAIN dir' /\ dir'[f] = dir[f])
                      \/ whole
               /\ (~last'.ok /\ pend'.at = "write") =>
                      \A f \in DOMAIN dir : f \in DOMAIN dir' /\ dir'[f] = dir[f]
               /\ fold_files(MemTable_new, dir', scan_dir(dir')) = mem]_vars

\* A recovery has stopped with a part of the new segment written, beside
\* the segment of before and its record.
C25_Witness ==
    /\ last.op = "recover" /\ ~last.ok /\ pend.at = "write"
    /\ pend.mem.entities # <<>>
    /\ dir[last.timestamp] # <<>>
    /\ Cardinality(DOMAIN dir) = 2

----------------------------------------------------------------------------
\* C28: after any sequence of put and delete calls the memtable holds one
\* entry for each key a call was made for and no other, in strictly
\* ascending lexicographic order of the keys (hence at most one per key);
\* get_all yields them all, tombstones included, in that order, and get
\* finds every one of them by its key.
C28_MemTableSortedAndUnique ==
    LET entries == get_all(mem_table)
    IN  /\ \A i \in 1..(Len(entries) - 1) :
               LexLess(entries[i].key, entries[i + 1].key)
        /\ \A i, j \in 1..Len(entries) :
               entries[i].key = entries[j].key => i = j
        /\ {entries[i].key : i \in 1..Len(entries)} = applied
        /\ \A i \in 1..Len(entries) :
               /\ MemTable_get(mem_table, entries[i].key) = Some(entries[i])
               /\ entries[i].deleted <=> entries[i].value = None
        /\ \A k \in MemKeys \ applied : MemTable_get(mem_table, k) = None

\* A memtable of four keys, tombstones among them, the last of which was
\* put between two others.
C28_Witness ==
    /\ ~open /\ last.op = "put"
    /\ Len(mem_table.entities) = 4
    /\ \E i \in 1..4 : mem_table.entities[i].deleted
    /\ \E i \in 2..3 : mem_table.entities[i].key = last.key

----------------------------------------------------------------------------
\* C22: the records written to a segment with put and tombstone, with
\* either flag, and committed are read back by the reader as they were
\* written: as many, in the same order, each with its key, its flag, its
\* timestamp and (when it is not deleted) its value.
C22_CodecRoundTrip ==
    (last.op = "commit" /\ storage.buf = <<>>) =>
        /\ collect(dir[storage.file_path]) = seg.log
        /\ end_of_records(dir[storage.file_path], 0) = Len(dir[storage.file_path])

----------------------------------------------------------------------------
\* C26: every record the writer emits with the deleted flag set has
\* value_size 0 and no value bytes, the timestamp following the key, be it
\* written by tombstone(key, ts) or by put(key, value, deleted = true, ts)
\* with any value.
C26_DeletedRecordHasNoValue ==
    [][(last'.op \in {"put", "tombstone"} /\ seg'.log[Len(seg'.log)].deleted) =>
           LET before == stream(dir, storage)
               after == stream(dir', storage')
           IN  SubSeq(after, Len(before) + 1, Len(after))
                   = to_le_bytes(Len(last'.key), UsizeBytes)
                         \o <<1>> \o to_le_bytes(0, UsizeBytes)
                         \o last'.key
                         \o to_le_bytes(last'.timestamp, TimestampBytes)]_vars

----------------------------------------------------------------------------
\* C27: the reader does not panic when the file ends inside a record (the
\* iteration ends), and it fails loudly, with a panic or an error, on a
\* read error that is not end-of-file: such an error never ends the
\* iteration as the end of the file does.
C27_ReaderFailsLoudly ==
    last.op = "read" =>
        /\ seg.err = "eof" => seg.outcome = "end"
        /\ seg.err = "io" => seg.outcome \in {"panic", "error"}


----------------------------------------------------------------------------
\* C29: in an engine opened by open_and_recover, or by open_empty on an
\* empty directory, after every successful set, delete, snapshot import
\* or purge the memtable is the last-write-wins fold of the records of the
\* segment files read in the order of their names: what open_and_recover
\* would rebuild at that moment.
C29_MemTableComplete ==
    (/\ open /\ run.origin \in {"new", "recover"}
     /\ last.op \in {"set", "delete", "import", "purge"} /\ last.ok)
        => mem_table = fold_files(MemTable_new, dir, scan_dir(dir))


----------------------------------------------------------------------------
\* The keys of the records of a blob.
blob_keys(blob) == {collect(blob)[i].key : i \in 1..Len(collect(blob))}

\* C31: snapshot_import of a blob snapshot_export produced returns
\* successfully from every engine state, also when the active segment
\* holds tombstone records (after a delete on this engine, or after
\* open_and_recover of a directory with deleted keys): it does not panic,
\* and afterwards get(k) returns the live value of the blob for every key
\* of the blob.
C31_ImportFromEveryState ==
    [][last'.op = "import" =>
           /\ last'.ok
           /\ LET records == collect(snap.blob)
              IN  \A i \in 1..Len(records) :
                      LET got == MemTable_get(mem_table', records[i].key)
                      IN  /\ IsSome(got) /\ ~Unwrap(got).deleted
                          /\ Unwrap(got).value = records[i].value]_vars

----------------------------------------------------------------------------
\* C32: whenever snapshot_import returns successfully, get(k) returns for
\* every key that is not in the blob what it returned before the import:
\* the import has only added or overwritten keys of the blob.
C32_ImportTouchesBlobKeysOnly ==
    [][(last'.op = "import" /\ last'.ok) =>
           \A k \in Keys \ blob_keys(snap.blob) :
               MemTable_get(mem_table', k) = MemTable_get(mem_table, k)]_vars

=============================================================================
